---- MODULE Spec2Model ----
(***************************************************************************)
(* The three command-line programs of the repository, each run being one  *)
(* execution of one of them:                                               *)
(*   phase1  excel2json.go  spreadsheet rows -> JSON summary               *)
(*   phase2  hugo.go        chdir + external site generator                *)
(*   phase3  FTP upload client                                             *)
(* Text that the code inspects character by character (the entries of      *)
(* files_to_upload, the formatted timestamp) is a sequence of one-char     *)
(* strings; text that is only copied or compared as a whole (sheet cells)  *)
(* is a string.                                                            *)
(***************************************************************************)
EXTENDS Integers, Sequences, FiniteSets, TLC

VARIABLES
    prog,          \* which executable this run is
    pc,            \* position in main
    exitCode,      \* process exit status, -1 while running
    fatal,         \* which fatal condition the environment raised, "none" if none
    logs,          \* what the process logged or printed, in order
    \* ---- phase3: upload client
    files,         \* config.Phase3.FilesToUpload
    idx,           \* position of the range loop over files (1-based)
    cur,           \* the loop's trimmed `file`, uploadFile's localFile
    err,           \* uploadFile's returned error
    conn,          \* control connection: "none", "open", "authed", "quit"
    wire,          \* commands sent over the control connection, in order
    opened,        \* local paths given to os.Open by uploadFile, in order
    results,       \* outcome of every uploadFile call, in order
    \* ---- phase1: spreadsheet converter
    sheet,         \* what GetRows returns for the input workbook
    rowIdx,        \* position of the range loop over rows (1-based)
    data,          \* processRows' Data72
    totalRecords,
    totalAno,
    clock,         \* last wall-clock tick read by time.Now
    written        \* summaries encoded to the output file, one per successful run

vars == <<prog, pc, exitCode, fatal, logs,
          files, idx, cur, err, conn, wire, opened, results,
          sheet, rowIdx, data, totalRecords, totalAno, clock, written>>

p3vars == <<files, idx, cur, err, conn, wire, opened, results>>
p1vars == <<sheet, rowIdx, data, totalRecords, totalAno, clock, written>>

----------------------------------------------------------------------------
(* Bounds of the model *)

MaxFiles == 2       \* longest files_to_upload list
MaxDataRows == 3    \* most rows after the three header rows
MaxTick == 2        \* wall-clock ticks available to time.Now

(* Program constants *)

HeaderRowCount == 3
MinCells == 6

----------------------------------------------------------------------------
(* Inputs *)

RECURSIVE SeqsUpTo(_, _)
SeqsUpTo(S, n) ==
    IF n = 0 THEN {<<>>}
    ELSE LET shorter == SeqsUpTo(S, n - 1)
         IN  shorter \cup {Append(s, x) : s \in shorter, x \in S}

PathCores == {<<>>, <<"a">>, <<"d", "/", "b">>}

LeftPads == {<<>>, <<" ">>}
RightPads == {<<>>, <<"\t">>}

FileEntries ==
    {l \o core \o r : core \in PathCores, l \in LeftPads, r \in RightPads}

FileLists == SeqsUpTo(FileEntries, MaxFiles)

RemoteDir == "/www"

Flags == {"Ano", "Ne", "", "Mozna"}

MkRow(n, flag, name, email) ==
    [c \in 1..n |-> IF c = 1 THEN flag
                    ELSE IF c = 2 THEN name
                    ELSE IF c = 6 THEN email
                    ELSE "x"]

NameOfFlag(f) ==
    IF f = "Ano" THEN "Anna" ELSE IF f = "Ne" THEN "Norbert"
    ELSE IF f = "" THEN "Emil" ELSE "Marie"

\* rows with a name (the "Mozna" one has a seventh cell), a row that is one
\* cell short, a row without a name
DataRows ==
    {MkRow(IF f = "Mozna" THEN MinCells + 1 ELSE MinCells, f, NameOfFlag(f), "mail") :
        f \in Flags}
    \cup {MkRow(MinCells - 1, "Ano", "Short", "none"),
          MkRow(MinCells, "Ano", "", "anon@mail")}

Row0s == {<<"h0">>, <<"h0", "Nadpis">>}
Row1s == {<<"m0">>, <<"m0", "Zprava">>}
Row2s == {<<>>, MkRow(MinCells, "Ano", "Header", "header@mail")}

Grids ==
    {<<>>}
    \cup {<<r0>> : r0 \in Row0s}
    \cup {<<r0, r1>> : r0 \in Row0s, r1 \in Row1s}
    \cup {<<r0, r1, r2>> \o d :
            r0 \in Row0s, r1 \in Row1s, r2 \in Row2s,
            d \in SeqsUpTo(DataRows, MaxDataRows)}

----------------------------------------------------------------------------
(* Pure functions of the code *)

IsSpace(c) == c \in {" ", "\t", "\n", "\r"}

RECURSIVE TrimLeft(_)
TrimLeft(s) ==
    IF s = <<>> THEN s
    ELSE IF IsSpace(Head(s)) THEN TrimLeft(Tail(s)) ELSE s

RECURSIVE TrimRight(_)
TrimRight(s) ==
    IF s = <<>> THEN s
    ELSE IF IsSpace(s[Len(s)]) THEN TrimRight(SubSeq(s, 1, Len(s) - 1)) ELSE s

\* variant: only the leading whitespace is removed
TrimSpace_LeftOnly(s) == TrimLeft(s)

TrimSpace(s) == TrimRight(TrimLeft(s))

Digits == <<"0", "1", "2", "3", "4", "5", "6", "7", "8", "9">>

RECURSIVE Itoa(_)
Itoa(n) == IF n < 10 THEN <<Digits[n + 1]>>
           ELSE Itoa(n \div 10) \o <<Digits[(n % 10) + 1]>>

Pad2(n) == IF n < 10 THEN <<"0">> \o Itoa(n) ELSE Itoa(n)

\* time.Now at tick t
TimeOf(t) ==
    LET s == 9 * 3600 + 59 * 60 + 58 + t * 61
    IN  [day |-> 1, month |-> 11, year |-> 2026,
         hour |-> s \div 3600, min |-> (s \div 60) % 60, sec |-> s % 60]

\* Format("2.1.2006 15.04.05")
Format(t) ==
    Itoa(t.day) \o <<".">> \o Itoa(t.month) \o <<".">> \o Itoa(t.year)
    \o <<" ">> \o Pad2(t.hour) \o <<".">> \o Pad2(t.min) \o <<".">> \o Pad2(t.sec)

ZeroInfo ==
    [LastUpdate |-> <<>>, Nadpis |-> "", Zprava |-> "",
     PocetZaznamu |-> 0, PocetAno |-> 0]

ZeroData == [Info |-> ZeroInfo, Users |-> <<>>]

\* variant: the empty-name test is missing
EndOfData_ShortOnly(row) == Len(row) < MinCells

\* the `len(row) < 6 || row[1] == ""` test of the row loop
EndOfData(row) == Len(row) < MinCells \/ row[2] = ""

NewUser(row) == [Jmeno |-> row[2], Email |-> row[6], Prijde |-> row[1]]

Ano == "Ano"

\* variant: every flag but "Ne" is counted
CountsAsAno_NotNe(user) == user.Prijde # "Ne"

CountsAsAno(user) == user.Prijde = Ano

Log(kind, arg) == [kind |-> kind, arg |-> arg]

\* a command on the control connection; src is the local file a STOR streams
Cmd(c, a, src) == [cmd |-> c, arg |-> a, src |-> src]

----------------------------------------------------------------------------

Programs == {"phase1", "phase2", "phase3"}

Init ==
    /\ prog \in Programs
    /\ pc = IF prog = "phase2" THEN "chdir" ELSE "load_config"
    /\ exitCode = -1
    /\ fatal = "none"
    /\ logs = <<>>
    /\ files \in IF prog = "phase3" THEN FileLists ELSE {<<>>}
    /\ idx = 1
    /\ cur = <<>>
    /\ err = "nil"
    /\ conn = "none"
    /\ wire = <<>>
    /\ opened = <<>>
    /\ results = <<>>
    /\ sheet \in IF prog = "phase1" THEN Grids ELSE {<<>>}
    /\ rowIdx = 1
    /\ data = ZeroData
    /\ totalRecords = 0
    /\ totalAno = 0
    /\ clock = 0
    /\ written = <<>>

\* log.Fatalf: log, then os.Exit(1); deferred calls do not run
Fatalf(what) ==
    /\ fatal' = what
    /\ logs' = Append(logs, Log("fatal", what))
    /\ exitCode' = 1
    /\ pc' = "exit"

----------------------------------------------------------------------------
(* phase3: the upload client *)

P3LoadConfigOk ==
    /\ prog = "phase3" /\ pc = "load_config"
    /\ pc' = "dial"
    /\ UNCHANGED <<prog, exitCode, fatal, logs, p3vars, p1vars>>

P3LoadConfigFail ==
    /\ prog = "phase3" /\ pc = "load_config"
    /\ Fatalf("config")
    /\ UNCHANGED <<prog, p3vars, p1vars>>

DialOk ==
    /\ prog = "phase3" /\ pc = "dial"
    /\ conn' = "open"
    /\ pc' = "login"
    /\ UNCHANGED <<prog, exitCode, fatal, logs,
                   files, idx, cur, err, wire, opened, results, p1vars>>

DialFail ==
    /\ prog = "phase3" /\ pc = "dial"
    /\ Fatalf("dial")
    /\ UNCHANGED <<prog, p3vars, p1vars>>

LoginOk ==
    /\ prog = "phase3" /\ pc = "login"
    /\ wire' = Append(wire, Cmd("LOGIN", "ftpUser", <<>>))
    /\ conn' = "authed"
    /\ logs' = Append(logs, Log("info", "connected"))
    /\ pc' = "loop"
    /\ UNCHANGED <<prog, exitCode, fatal,
                   files, idx, cur, err, opened, results, p1vars>>

\* variant: the login error is logged and main goes on to the loop
LoginFail_Continues ==
    /\ prog = "phase3" /\ pc = "login"
    /\ wire' = Append(wire, Cmd("LOGIN", "ftpUser", <<>>))
    /\ logs' = Append(logs, Log("error", "login"))
    /\ fatal' = "login"
    /\ pc' = "loop"
    /\ UNCHANGED <<prog, exitCode, files, idx, cur, err, conn, opened, results, p1vars>>

\* connectToFtp drops conn and returns the error; main calls log.Fatalf
LoginFail ==
    /\ prog = "phase3" /\ pc = "login"
    /\ wire' = Append(wire, Cmd("LOGIN", "ftpUser", <<>>))
    /\ Fatalf("login")
    /\ UNCHANGED <<prog, files, idx, cur, err, conn, opened, results, p1vars>>

\* one pass of the range loop whose entry trims to ""
LoopSkip ==
    /\ prog = "phase3" /\ pc = "loop"
    /\ idx <= Len(files)
    /\ TrimSpace(files[idx]) = <<>>
    /\ idx' = idx + 1
    /\ UNCHANGED <<prog, pc, exitCode, fatal, logs,
                   files, cur, err, conn, wire, opened, results, p1vars>>

\* one pass of the range loop that calls uploadFile
LoopCall ==
    /\ prog = "phase3" /\ pc = "loop"
    /\ idx <= Len(files)
    /\ TrimSpace(files[idx]) # <<>>
    /\ cur' = TrimSpace(files[idx])
    /\ pc' = "upload_open"
    /\ UNCHANGED <<prog, exitCode, fatal, logs,
                   files, idx, err, conn, wire, opened, results, p1vars>>

OpenOk ==
    /\ prog = "phase3" /\ pc = "upload_open"
    /\ opened' = Append(opened, cur)
    /\ pc' = "upload_cwd"
    /\ UNCHANGED <<prog, exitCode, fatal, logs,
                   files, idx, cur, err, conn, wire, results, p1vars>>

OpenFail ==
    /\ prog = "phase3" /\ pc = "upload_open"
    /\ opened' = Append(opened, cur)
    /\ err' = "open"
    /\ results' = Append(results, [file |-> cur, err |-> "open"])
    /\ pc' = "upload_ret"
    /\ UNCHANGED <<prog, exitCode, fatal, logs,
                   files, idx, cur, conn, wire, p1vars>>

ChangeDirOk ==
    /\ prog = "phase3" /\ pc = "upload_cwd"
    /\ wire' = Append(wire, Cmd("CWD", RemoteDir, <<>>))
    /\ pc' = "upload_stor"
    /\ UNCHANGED <<prog, exitCode, fatal, logs,
                   files, idx, cur, err, conn, opened, results, p1vars>>

ChangeDirFail ==
    /\ prog = "phase3" /\ pc = "upload_cwd"
    /\ wire' = Append(wire, Cmd("CWD", RemoteDir, <<>>))
    /\ err' = "cwd"
    /\ results' = Append(results, [file |-> cur, err |-> "cwd"])
    /\ pc' = "upload_ret"
    /\ UNCHANGED <<prog, exitCode, fatal, logs,
                   files, idx, cur, conn, opened, p1vars>>

\* the remote path given to conn.Stor
StorName(localFile) == localFile

StorOk ==
    /\ prog = "phase3" /\ pc = "upload_stor"
    /\ wire' = Append(wire, Cmd("STOR", StorName(cur), cur))
    /\ logs' = Append(logs, Log("uploaded", cur))
    /\ err' = "nil"
    /\ results' = Append(results, [file |-> cur, err |-> "nil"])
    /\ pc' = "upload_ret"
    /\ UNCHANGED <<prog, exitCode, fatal,
                   files, idx, cur, conn, opened, p1vars>>

StorFail ==
    /\ prog = "phase3" /\ pc = "upload_stor"
    /\ wire' = Append(wire, Cmd("STOR", StorName(cur), cur))
    /\ err' = "stor"
    /\ results' = Append(results, [file |-> cur, err |-> "stor"])
    /\ pc' = "upload_ret"
    /\ UNCHANGED <<prog, exitCode, fatal, logs,
                   files, idx, cur, conn, opened, p1vars>>

\* variant: an upload error ends the run
UploadReturn_AbortsOnError ==
    /\ prog = "phase3" /\ pc = "upload_ret"
    /\ IF err # "nil"
       THEN /\ logs' = Append(logs, Log("upload_error", cur))
            /\ exitCode' = 1
            /\ pc' = "exit"
            /\ UNCHANGED <<err, idx>>
       ELSE /\ err' = "nil"
            /\ idx' = idx + 1
            /\ pc' = "loop"
            /\ UNCHANGED <<logs, exitCode>>
    /\ UNCHANGED <<prog, fatal, files, cur, conn, wire, opened, results, p1vars>>

\* back in main's loop body: `if err := uploadFile(...); err != nil { log.Printf }`
UploadReturn ==
    /\ prog = "phase3" /\ pc = "upload_ret"
    /\ logs' = IF err # "nil" THEN Append(logs, Log("upload_error", cur)) ELSE logs
    /\ err' = "nil"
    /\ idx' = idx + 1
    /\ pc' = "loop"
    /\ UNCHANGED <<prog, exitCode, fatal,
                   files, cur, conn, wire, opened, results, p1vars>>

\* the loop is over, main returns and the deferred conn.Quit() runs
P3MainReturn ==
    /\ prog = "phase3" /\ pc = "loop"
    /\ idx > Len(files)
    /\ wire' = Append(wire, Cmd("QUIT", "", <<>>))
    /\ conn' = "quit"
    /\ exitCode' = 0
    /\ pc' = "exit"
    /\ UNCHANGED <<prog, fatal, logs,
                   files, idx, cur, err, opened, results, p1vars>>

Phase3 ==
    \/ P3LoadConfigOk \/ P3LoadConfigFail
    \/ DialOk \/ DialFail
    \/ LoginOk \/ LoginFail
    \/ LoopSkip \/ LoopCall
    \/ OpenOk \/ OpenFail
    \/ ChangeDirOk \/ ChangeDirFail
    \/ StorOk \/ StorFail
    \/ UploadReturn
    \/ P3MainReturn

----------------------------------------------------------------------------
(* phase2: the site-build wrapper *)

ChdirOk ==
    /\ prog = "phase2" /\ pc = "chdir"
    /\ pc' = "run_hugo"
    /\ UNCHANGED <<prog, exitCode, fatal, logs, p3vars, p1vars>>

ChdirFail ==
    /\ prog = "phase2" /\ pc = "chdir"
    /\ Fatalf("chdir")
    /\ UNCHANGED <<prog, p3vars, p1vars>>

HugoOk ==
    /\ prog = "phase2" /\ pc = "run_hugo"
    /\ logs' = Append(logs, Log("info", "Hugo build succeeded"))
    /\ exitCode' = 0
    /\ pc' = "exit"
    /\ UNCHANGED <<prog, fatal, p3vars, p1vars>>

HugoFail ==
    /\ prog = "phase2" /\ pc = "run_hugo"
    /\ Fatalf("subprocess")
    /\ UNCHANGED <<prog, p3vars, p1vars>>

Phase2 == ChdirOk \/ ChdirFail \/ HugoOk \/ HugoFail

----------------------------------------------------------------------------
(* phase1: the spreadsheet converter *)

\* main's `fmt.Println(...); return`: the process ends with status 0
PrintAndReturn(what) ==
    /\ fatal' = what
    /\ logs' = Append(logs, Log("print", what))
    /\ exitCode' = 0
    /\ pc' = "exit"

P1LoadConfigOk ==
    /\ prog = "phase1" /\ pc = "load_config"
    /\ pc' = "open_excel"
    /\ UNCHANGED <<prog, exitCode, fatal, logs, p3vars, p1vars>>

P1LoadConfigFail ==
    /\ prog = "phase1" /\ pc = "load_config"
    /\ PrintAndReturn("config")
    /\ UNCHANGED <<prog, p3vars, p1vars>>

OpenExcelOk ==
    /\ prog = "phase1" /\ pc = "open_excel"
    /\ pc' = "get_rows"
    /\ UNCHANGED <<prog, exitCode, fatal, logs, p3vars, p1vars>>

OpenExcelFail ==
    /\ prog = "phase1" /\ pc = "open_excel"
    /\ PrintAndReturn("open")
    /\ UNCHANGED <<prog, p3vars, p1vars>>

GetRowsOk ==
    /\ prog = "phase1" /\ pc = "get_rows"
    /\ pc' = "process_rows"
    /\ UNCHANGED <<prog, exitCode, fatal, logs, p3vars, p1vars>>

GetRowsFail ==
    /\ prog = "phase1" /\ pc = "get_rows"
    /\ PrintAndReturn("rows")
    /\ UNCHANGED <<prog, p3vars, p1vars>>

\* rows[0][1] and rows[1][1] are read only when len(rows) > 1
ReadsHeader(rows) == Len(rows) > 1

\* an index expression out of range panics
HeaderPanics(rows) ==
    ReadsHeader(rows) /\ (Len(rows[1]) < 2 \/ Len(rows[2]) < 2)

\* processRows up to the loop: `var data Data72` and the two header cells
ProcessRowsHeader ==
    /\ prog = "phase1" /\ pc = "process_rows"
    /\ ~HeaderPanics(sheet)
    /\ data' = IF ReadsHeader(sheet)
               THEN [ZeroData EXCEPT !.Info.Nadpis = sheet[1][2],
                                     !.Info.Zprava = sheet[2][2]]
               ELSE ZeroData
    /\ totalRecords' = 0
    /\ totalAno' = 0
    /\ rowIdx' = 1
    /\ pc' = "rows_loop"
    /\ UNCHANGED <<prog, exitCode, fatal, logs, p3vars,
                   sheet, clock, written>>

\* the runtime panic ends the process with status 2
ProcessRowsPanic ==
    /\ prog = "phase1" /\ pc = "process_rows"
    /\ HeaderPanics(sheet)
    /\ fatal' = "panic"
    /\ logs' = Append(logs, Log("panic", "index out of range"))
    /\ exitCode' = 2
    /\ pc' = "exit"
    /\ UNCHANGED <<prog, p3vars, p1vars>>

\* `if i < 3 { continue }`, i being rowIdx - 1
IsHeaderRow(i) == i < HeaderRowCount

RowsLoopSkip ==
    /\ prog = "phase1" /\ pc = "rows_loop"
    /\ rowIdx <= Len(sheet)
    /\ IsHeaderRow(rowIdx - 1)
    /\ rowIdx' = rowIdx + 1
    /\ UNCHANGED <<prog, pc, exitCode, fatal, logs, p3vars,
                   sheet, data, totalRecords, totalAno, clock, written>>

RowsLoopBreak ==
    /\ prog = "phase1" /\ pc = "rows_loop"
    /\ rowIdx <= Len(sheet)
    /\ ~IsHeaderRow(rowIdx - 1)
    /\ EndOfData(sheet[rowIdx])
    /\ pc' = "stamp"
    /\ UNCHANGED <<prog, exitCode, fatal, logs, p3vars, p1vars>>

RowsLoopAppend ==
    /\ prog = "phase1" /\ pc = "rows_loop"
    /\ rowIdx <= Len(sheet)
    /\ ~IsHeaderRow(rowIdx - 1)
    /\ ~EndOfData(sheet[rowIdx])
    /\ LET user == NewUser(sheet[rowIdx])
       IN  /\ totalAno' = IF CountsAsAno(user) THEN totalAno + 1 ELSE totalAno
           /\ data' = [data EXCEPT !.Users = Append(@, user)]
    /\ totalRecords' = totalRecords + 1
    /\ rowIdx' = rowIdx + 1
    /\ UNCHANGED <<prog, pc, exitCode, fatal, logs, p3vars,
                   sheet, clock, written>>

RowsLoopEnd ==
    /\ prog = "phase1" /\ pc = "rows_loop"
    /\ rowIdx > Len(sheet)
    /\ pc' = "stamp"
    /\ UNCHANGED <<prog, exitCode, fatal, logs, p3vars, p1vars>>

\* variant: the timestamp is stored in the message field as well
Stamped_TimeInMessage(d, now, records, ano) ==
    [d EXCEPT !.Info.LastUpdate = Format(TimeOf(now)),
              !.Info.Zprava = Format(TimeOf(now)),
              !.Info.PocetZaznamu = records,
              !.Info.PocetAno = ano]

\* the Info fields processRows sets after the loop
Stamped(d, now, records, ano) ==
    [d EXCEPT !.Info.LastUpdate = Format(TimeOf(now)),
              !.Info.PocetZaznamu = records,
              !.Info.PocetAno = ano]

\* the end of processRows; time.Now is later than at any earlier run
StampAndReturn ==
    /\ prog = "phase1" /\ pc = "stamp"
    /\ \E now \in (clock + 1)..MaxTick :
          /\ clock' = now
          /\ data' = Stamped(data, now, totalRecords, totalAno)
    /\ pc' = "write_json"
    /\ UNCHANGED <<prog, exitCode, fatal, logs, p3vars,
                   sheet, rowIdx, totalRecords, totalAno, written>>

WriteJsonOk ==
    /\ prog = "phase1" /\ pc = "write_json"
    /\ written' = Append(written, data)
    /\ logs' = Append(logs, Log("print", "created"))
    /\ exitCode' = 0
    /\ pc' = "exit"
    /\ UNCHANGED <<prog, fatal, p3vars,
                   sheet, rowIdx, data, totalRecords, totalAno, clock>>

WriteJsonFail ==
    /\ prog = "phase1" /\ pc = "write_json"
    /\ PrintAndReturn("write")
    /\ UNCHANGED <<prog, p3vars, p1vars>>

\* the converter is started again on the same workbook, while the clock has
\* a tick left for it
Rerun ==
    /\ prog = "phase1" /\ pc = "exit"
    /\ clock < MaxTick
    /\ pc' = "load_config"
    /\ exitCode' = -1
    /\ fatal' = "none"
    /\ logs' = <<>>
    /\ data' = ZeroData
    /\ totalRecords' = 0
    /\ totalAno' = 0
    /\ rowIdx' = 1
    /\ UNCHANGED <<prog, p3vars, sheet, clock, written>>

Phase1 ==
    \/ P1LoadConfigOk \/ P1LoadConfigFail
    \/ OpenExcelOk \/ OpenExcelFail
    \/ GetRowsOk \/ GetRowsFail
    \/ ProcessRowsHeader \/ ProcessRowsPanic
    \/ RowsLoopSkip \/ RowsLoopBreak \/ RowsLoopAppend \/ RowsLoopEnd
    \/ StampAndReturn
    \/ WriteJsonOk \/ WriteJsonFail
    \/ Rerun

----------------------------------------------------------------------------

Next == Phase1 \/ Phase2 \/ Phase3

Spec == Init /\ [][Next]_vars

----------------------------------------------------------------------------
(* Vocabulary of the properties, stated independently of the operators     *)
(* above                                                                   *)

WhiteSpace == {" ", "\t", "\n", "\r"}

\* t is s without its leading and trailing whitespace
IsTrimOf(t, s) ==
    \E a \in 0..Len(s) : \E b \in 0..(Len(s) - a) :
        /\ t = SubSeq(s, a + 1, Len(s) - b)
        /\ \A i \in 1..a : s[i] \in WhiteSpace
        /\ \A i \in (Len(s) - b + 1)..Len(s) : s[i] \in WhiteSpace
        /\ t # <<>> => (t[1] \notin WhiteSpace /\ t[Len(t)] \notin WhiteSpace)

Trimmed(s) ==
    CHOOSE t \in {SubSeq(s, i, j) : i \in 1..(Len(s) + 1), j \in 0..Len(s)} :
        IsTrimOf(t, s)

\* the trimmed entries of a list that are not empty, in list order
RECURSIVE ExpectedAttempts(_)
ExpectedAttempts(list) ==
    IF list = <<>> THEN <<>>
    ELSE LET t == Trimmed(Head(list))
         IN  (IF t = <<>> THEN <<>> ELSE <<t>>) \o ExpectedAttempts(Tail(list))

NumCmd(c) == Cardinality({k \in DOMAIN wire : wire[k].cmd = c})

Range(q) == {q[k] : k \in DOMAIN q}

\* entries of files_to_upload whose loop pass has reached os.Open
EntriesReached ==
    IF pc \in {"upload_cwd", "upload_stor", "upload_ret"} THEN idx ELSE idx - 1

\* C1: the local files uploadFile tried to open are, at every moment, the
\* whitespace-trimmed non-empty entries of the part of files_to_upload the loop
\* has reached, in list order; every remote directory change and store belongs
\* to one of those opens, so an entry that trims to nothing causes neither an
\* open nor a remote command.
C1_AttemptsAreTrimmedEntries ==
    prog = "phase3" =>
        /\ opened = ExpectedAttempts(SubSeq(files, 1, EntriesReached))
        /\ NumCmd("CWD") <= Len(opened)
        /\ NumCmd("STOR") <= NumCmd("CWD")
        /\ \A k \in DOMAIN wire :
              wire[k].cmd = "STOR" => wire[k].src \in Range(opened)

C1_Witness ==
    /\ prog = "phase3" /\ pc = "exit" /\ fatal = "none"
    /\ files = << <<" ", "a", "\t">>, <<" ">> >>
    /\ opened = << <<"a">> >>

\* C2: when the dial or the login failed, and as long as the connection is not
\* authenticated, no local file has been opened and no directory-change or
\* store command has been sent.
C2_NoUploadWithoutLogin ==
    (prog = "phase3" /\ (fatal \in {"dial", "login"} \/ conn \in {"none", "open"})) =>
        /\ opened = <<>>
        /\ results = <<>>
        /\ NumCmd("CWD") = 0
        /\ NumCmd("STOR") = 0

C2_Witness ==
    /\ prog = "phase3" /\ pc = "exit" /\ fatal = "login"
    /\ ExpectedAttempts(files) # <<>>

FilesOf(q) == [k \in DOMAIN q |-> q[k].file]

Failures(q) == SelectSeq(q, LAMBDA r : r.err # "nil")

ErrorLogs == SelectSeq(logs, LAMBDA l : l.kind = "upload_error")

\* C3: once the connection is authenticated the run ends only after the whole
\* list, with status 0 and with every trimmed non-empty entry attempted in
\* order whatever failed before it; the error log holds one line per failed
\* upload, for the file that failed, in order (the line of a failure that
\* uploadFile has just returned is written by the next step of main).
C3_FailuresDoNotAbort ==
    (prog = "phase3" /\ conn \in {"authed", "quit"}) =>
        /\ pc = "exit" =>
              /\ exitCode = 0
              /\ idx > Len(files)
              /\ FilesOf(results) = ExpectedAttempts(files)
        /\ pc # "upload_ret" =>
              [k \in DOMAIN ErrorLogs |-> ErrorLogs[k].arg] = FilesOf(Failures(results))
        /\ pc = "upload_ret" =>
              Len(ErrorLogs) = Len(Failures(results)) - (IF err # "nil" THEN 1 ELSE 0)

C3_Witness ==
    /\ prog = "phase3" /\ pc = "exit" /\ conn = "quit"
    /\ Len(results) = 2
    /\ results[1].err = "open"
    /\ results[2].err = "nil"
    /\ Len(ErrorLogs) = 1

\* the path with its directory part removed
BaseName(path) ==
    LET slashes == {i \in DOMAIN path : path[i] = "/"}
    IN  IF slashes = {} THEN path
        ELSE SubSeq(path, (CHOOSE i \in slashes : \A j \in slashes : j <= i) + 1,
                    Len(path))

C5_QuitBeforeExit ==
    (prog = "phase3" /\ pc = "exit" /\ conn # "none") =>
        /\ conn = "quit"
        /\ wire # <<>>
        /\ wire[Len(wire)].cmd = "QUIT"

\* processRows has returned its summary, which is `data`
ProcessRowsReturned ==
    /\ prog = "phase1"
    /\ \/ pc = "write_json"
       \/ pc = "exit" /\ fatal \in {"none", "write"}

\* number of rows from row 3 on that come before the first row with fewer
\* than 6 cells or an empty column 1
ConsumedCount(rows) ==
    LET ends == {j \in 4..Len(rows) : Len(rows[j]) < 6 \/ rows[j][2] = ""}
        stop == IF ends = {} THEN Len(rows) + 1
                ELSE CHOOSE j \in ends : \A e \in ends : j <= e
    IN  IF stop > 4 THEN stop - 4 ELSE 0

RowsConsumed(d, rows) ==
    LET n == ConsumedCount(rows)
    IN  /\ d.Info.PocetZaznamu = n
        /\ Len(d.Users) = n
        /\ \A k \in 1..n :
              d.Users[k] = [Jmeno |-> rows[3 + k][2],
                            Email |-> rows[3 + k][6],
                            Prijde |-> rows[3 + k][1]]

\* C6: the summary processRows returns, and every summary written, counts and
\* lists exactly the rows from row 3 up to the first row that is short or has
\* no name, in sheet order; no later row contributes.
C6_RowsUntilFirstEnd ==
    /\ ProcessRowsReturned => RowsConsumed(data, sheet)
    /\ \A k \in DOMAIN written : RowsConsumed(written[k], sheet)

C6_Witness ==
    /\ ProcessRowsReturned
    /\ Len(sheet) = 6
    /\ Len(data.Users) = 1
    /\ data.Info.PocetZaznamu = 1
    /\ Len(sheet[6]) >= 6 /\ sheet[6][2] # ""

AnoCount(users) == Cardinality({k \in DOMAIN users : users[k].Prijde = "Ano"})

\* C7: pocetAno is the number of users whose flag is "Ano", and is at most
\* pocetZaznamu.
C7_AnoCount ==
    ProcessRowsReturned =>
        /\ data.Info.PocetAno = AnoCount(data.Users)
        /\ data.Info.PocetAno <= data.Info.PocetZaznamu

C7_Witness ==
    /\ ProcessRowsReturned
    /\ Len(data.Users) = 3
    /\ data.Info.PocetAno = 1
    /\ \E k \in DOMAIN data.Users : data.Users[k].Prijde = "Mozna"
    /\ \E k \in DOMAIN data.Users : data.Users[k].Prijde = "Ne"

\* C8: a program exits with status 0 exactly when no fatal condition occurred.
C8_ExitStatus ==
    pc = "exit" => (exitCode = 0 <=> fatal = "none")

WithoutLastUpdate(d) == [d EXCEPT !.Info.LastUpdate = <<>>]

\* C9: the summaries written by runs on the same rows at different times agree
\* in everything but lastUpdate.
C9_OnlyLastUpdateDiffers ==
    \A a \in DOMAIN written : \A b \in DOMAIN written :
        WithoutLastUpdate(written[a]) = WithoutLastUpdate(written[b])

C9_Witness ==
    /\ Len(written) = 2
    /\ written[1].Info.LastUpdate # written[2].Info.LastUpdate
    /\ written[1].Users # <<>>
    /\ written[1].Info.Nadpis = "Nadpis"

\* the cell at row r, column c (1-based here), empty when absent
CellOrEmpty(rows, r, c) ==
    IF r <= Len(rows) /\ c <= Len(rows[r]) THEN rows[r][c] ELSE ""

\* processRows was called in this run
ProcessRowsCalled ==
    /\ prog = "phase1"
    /\ \/ pc \in {"rows_loop", "stamp", "write_json"}
       \/ pc = "exit" /\ fatal \in {"none", "write", "panic"}

\* C10: processRows never fails on the header rows, and its heading and
\* message are the cells at row 0 column 1 and row 1 column 1, a missing cell
\* reading as empty.
C10_HeaderCells ==
    ProcessRowsCalled =>
        /\ fatal # "panic"
        /\ data.Info.Nadpis = CellOrEmpty(sheet, 1, 2)
        /\ data.Info.Zprava = CellOrEmpty(sheet, 2, 2)

====
